---- MODULE Spec2Model ----
(***************************************************************************)
(* Model of omnihash (src/main.go): the Tasks work ledger (working.db),    *)
(* the Storage hash recorder (hashes.db) and the crawl loop of main().     *)
(* Tables are sets of rows; every SQL statement is an operator from the    *)
(* table before to the table after, with the constraints of the schema     *)
(* (PRIMARY KEY, UNIQUE, ON CONFLICT) enforced by the statement.           *)
(***************************************************************************)
EXTENDS Integers, Sequences, FiniteSets, TLC

VARIABLES
    jobs,           \* table jobs(name PRIMARY KEY, page) of working.db
    done,           \* table done(name PRIMARY KEY, page, reason) of working.db
    length,         \* Tasks.length, the in-memory count behind Len()
    archive_items,  \* table archive_items(id AUTOINCREMENT, name UNIQUE) of hashes.db
    hashes,         \* table hashes(hash PRIMARY KEY, item) of hashes.db
    pc,             \* position of main()
    args,           \* os.Args[1:], until they are seeded
    job,            \* the *Job returned by tasks.Next() (a copy, local to the iteration)
    buf,            \* the entries of co.Resp.Buf not yet ranged over
    reason,         \* the reason argument of the pending tasks.Remove call
    intr,           \* a signal is buffered in the intr channel
    restarts,       \* number of times the process was started again
    everActive,     \* history: names that have had a row in the jobs table
    removed,        \* history: names for which a tasks.Remove call has returned
    iter,           \* history: what the current / last loop iteration did
    entry,          \* history: the Storage.NewEntry call of the last entry ranged over
    progress        \* history: per collection, the last page ranged over to its end in the
                    \* first run of the process (kept until a second run seeds)

vars == <<jobs, done, length, archive_items, hashes, pc, args, job, buf, reason,
          intr, restarts, everActive, removed, iter, entry, progress>>

(***************************************************************************)
(* Bounds of the model.                                                    *)
(***************************************************************************)
MaxArgs == 2         \* command-line arguments per start
MaxBuf == 2          \* entries in one listing page
MaxPage == 2         \* last page of a collection that can hold entries
MaxRestarts == 1     \* process restarts (after a crash or after an exit)
MaxFiles == 1        \* files in one item's metadata
MaxLength == 2       \* cap of Tasks.length, which duplicate Adds grow without limit
MaxRecorderFiles == 2    \* files in one call of NewEntry on the store alone

(***************************************************************************)
(* Program constants.                                                      *)
(***************************************************************************)
batchSize == 1000
HashHexLen == 40

\* The identifiers of the archive: the collections and the leaf items.
Collections == {"a", "b"}
Items == {"x"}
Identifiers == Collections \cup Items

\* The mediatype the metadata service reports for an identifier.
Mediatype(name) == IF name \in Collections THEN "collection" ELSE "texts"

SeqsUpTo(S, n) == UNION {[1..k -> S] : k \in 0..n}

ArgSeqs == SeqsUpTo(Collections, MaxArgs)

ErrText == "fetch error"

NoJob == [collection |-> "", page |-> 0]

NoIter == [coll |-> "", p |-> 0, retry |-> "none", empty |-> FALSE, incs |-> 0,
           items |-> 0, appended |-> 0, lenBefore |-> 0, over |-> FALSE,
           intrMid |-> FALSE, failed |-> 0]

NoProgress == [n \in Collections |-> 0]

NoEntry == [item |-> "", err |-> "", recordable |-> {}]

(***************************************************************************)
(* Tasks: the prepared statements of NewTasks.                             *)
(***************************************************************************)
HasJob(rows, name) == \E r \in rows : r.name = name

HasDoneRecord(rows, name) == \E r \in rows : r.name = name

\* SELECT COUNT(*) FROM jobs;
CountJobs(rows) == Cardinality(rows)

Perms(S) == {f \in [1..Cardinality(S) -> S] : \A r \in S : \E i \in DOMAIN f : f[i] = r}

\* ... FROM jobs ORDER BY page ASC: the orders the engine may return the rows
\* in (rows of equal page in any order).
OrderByPageAsc(rows) ==
    {f \in Perms(rows) : \A i, k \in DOMAIN f : i < k => f[i].page <= f[k].page}

\* The query without its ORDER BY clause.
NextQueryUnordered(rows) ==
    IF rows = {} THEN {} ELSE {Head(f) : f \in Perms(rows)}

\* SELECT name, page FROM jobs ORDER BY page ASC LIMIT 1; the set of rows the
\* query may yield, empty when the table is empty (sql.ErrNoRows).
NextQuery(rows) ==
    IF rows = {} THEN {} ELSE {Head(f) : f \in OrderByPageAsc(rows)}

\* The UPDATE matching no row.
IncrementExecNoop(rows, name) == rows

\* UPDATE jobs SET page = page + 1 WHERE name = (?);
IncrementExec(rows, name) ==
    {IF r.name = name THEN [r EXCEPT !.page = @ + 1] ELSE r : r \in rows}

\* The statement as INSERT OR REPLACE: the row of the name is overwritten.
AddExecReplace(rows, name, page) ==
    {r \in rows : r.name # name} \cup {[name |-> name, page |-> page]}

\* INSERT INTO jobs (name, page) VALUES (?, ?) ON CONFLICT DO NOTHING;
AddExec(rows, name, page) ==
    IF HasJob(rows, name) THEN rows ELSE rows \cup {[name |-> name, page |-> page]}

\* DELETE FROM jobs WHERE name = (?);
RemoveExec(rows, name) == {r \in rows : r.name # name}

\* The statement as INSERT OR REPLACE: the row of the name is overwritten.
RememberExecReplace(rows, name, page, why) ==
    [rows |-> {r \in rows : r.name # name}
                  \cup {[name |-> name, page |-> page, reason |-> why]},
     err |-> FALSE]

\* INSERT INTO done (name, page, reason) VALUES (?, ?, ?); fails on the primary key.
RememberExec(rows, name, page, why) ==
    IF HasDoneRecord(rows, name)
    THEN [rows |-> rows, err |-> TRUE]
    ELSE [rows |-> rows \cup {[name |-> name, page |-> page, reason |-> why]},
          err |-> FALSE]

\* t.hasDone.QueryRow().Scan(&done): the statement has one parameter and the
\* call binds none, so database/sql refuses it ("expects 1 inputs; got 0")
\* whatever the done table holds, and done keeps its zero value.
HasDoneQueryRow(rows) == [err |-> TRUE, done |-> 0]

\* Tasks.Add: the jobs table and the length after the call.
Add(rows, doneRows, len, name) ==
    LET q == HasDoneQueryRow(doneRows) IN
    IF ~q.err /\ q.done = 1
    THEN [jobs |-> rows, length |-> len]
    ELSE [jobs |-> AddExec(rows, name, 1), length |-> len + 1]

\* for i := 1; i < len(os.Args); i++ { tasks.Add(os.Args[i]) }: the jobs table
\* and the length after the loop.
RECURSIVE SeedAll(_, _, _, _)
SeedAll(rows, doneRows, len, a) ==
    IF a = <<>> THEN [jobs |-> rows, length |-> len]
    ELSE LET r == Add(rows, doneRows, len, Head(a))
         IN SeedAll(r.jobs, doneRows, r.length, Tail(a))

\* NewCollectionSubset: the argument check made before the request.
SubsetArgsOk(count, page) == ~(count < 1 \/ page < 1)

\* The pages the listing service may answer a request with: any sequence of
\* at most MaxBuf identifiers, none once the page is past MaxPage.
Listings(page) == IF page <= MaxPage THEN SeqsUpTo(Identifiers, MaxBuf) ELSE {<<>>}

(***************************************************************************)
(* Strings.  A name is a sequence of tokens (an identifier or a fixed      *)
(* suffix counts as one token); a hash string is a sequence of characters. *)
(***************************************************************************)
Str(name) == <<name>>

HasPrefix(s, prefix) ==
    Len(s) >= Len(prefix) /\ SubSeq(s, 1, Len(prefix)) = prefix

ThumbName == <<"__ia_thumb.jpg">>

GeneratedSuffixes ==
    {<<"_archive.torrent">>, <<"_files.xml">>, <<"_meta.sqlite">>, <<"_meta.xml">>,
     <<"_reviews.xml">>}

LowerHex == <<"0", "1", "2", "3", "4", "5", "6", "7", "8", "9", "a", "b", "c", "d", "e", "f">>

UpperHex == <<"0", "1", "2", "3", "4", "5", "6", "7", "8", "9", "A", "B", "C", "D", "E", "F">>

IsHexChar(c) == \E v \in DOMAIN LowerHex : c = LowerHex[v] \/ c = UpperHex[v]

HexVal(c) == (CHOOSE v \in DOMAIN LowerHex : c = LowerHex[v] \/ c = UpperHex[v]) - 1

\* hex.DecodeString: an odd length or a character that is no hex digit is an
\* error, otherwise every two characters make one byte.
DecodeString(s) ==
    IF Len(s) % 2 = 1 \/ \E i \in DOMAIN s : ~IsHexChar(s[i])
    THEN [err |-> TRUE, bytes |-> <<>>]
    ELSE [err |-> FALSE,
          bytes |-> [i \in 1..(Len(s) \div 2) |->
                        16 * HexVal(s[2 * i - 1]) + HexVal(s[2 * i])]]

(***************************************************************************)
(* The metadata service: the files it may report for an identifier.        *)
(***************************************************************************)
HashBytes == 20

HexOf(c) == [i \in 1..HashHexLen |-> c]

ShortHex == [i \in 1..(HashHexLen - 2) |-> "a"]

BadHex == [i \in 1..HashHexLen |-> IF i = 1 THEN "g" ELSE "a"]

HashStrings == {HexOf("a"), HexOf("b"), HexOf("c"), HexOf("C"), HexOf("d"), ShortHex, BadHex}

FilesOf(item) ==
    {[name |-> ThumbName, hash |-> HexOf("a")],
     [name |-> <<item, "_meta.xml">>, hash |-> HexOf("b")],
     [name |-> <<"data.bin">>, hash |-> HexOf("c")],
     [name |-> <<item, ".bin">>, hash |-> HexOf("C")],
     [name |-> <<"data.bin">>, hash |-> ShortHex],
     [name |-> <<"data.bin">>, hash |-> BadHex]}

FileLists(item) == SeqsUpTo(FilesOf(item), MaxFiles)

\* hex.DecodeString of every hash string the service may report.
Decoded == [s \in HashStrings |-> DecodeString(s)]

(***************************************************************************)
(* Storage: the prepared statements of NewStorage, and NewEntry.           *)
(***************************************************************************)
\* id INTEGER PRIMARY KEY AUTOINCREMENT: one more than every id handed out;
\* rows of archive_items are never deleted.
NextId(rows) == Cardinality(rows) + 1

\* INSERT INTO archive_items (name) VALUES (?); fails on UNIQUE(name).
InsNameExec(rows, name) ==
    IF \E r \in rows : r.name = name
    THEN [rows |-> rows, err |-> TRUE, id |-> 0]
    ELSE [rows |-> rows \cup {[id |-> NextId(rows), name |-> name]}, err |-> FALSE,
          id |-> NextId(rows)]

\* The statement on a hashes table without its primary key.
InsHashExecNoKey(rows, hash, id) ==
    [rows |-> rows \cup {[hash |-> hash, item |-> id]}, err |-> FALSE]

\* INSERT INTO hashes (hash, item) VALUES (?, ?); fails on PRIMARY KEY(hash).
InsHashExec(rows, hash, id) ==
    IF \E r \in rows : r.hash = hash
    THEN [rows |-> rows, err |-> TRUE]
    ELSE [rows |-> rows \cup {[hash |-> hash, item |-> id]}, err |-> FALSE]

\* s.db.Begin(): the rows written through the transaction.  NewEntry runs
\* s.insName and s.insHash, which were prepared on the database and are not
\* bound to tx (no tx.Stmt), so each of them commits on its own and the
\* transaction never holds a row.
TxBegin == [items |-> {}, hashes |-> {}]

\* tx.Rollback(): undoes what was written through tx.
TxRollback(db, tx) ==
    [items |-> db.items \ tx.items, hashes |-> db.hashes \ tx.hashes]

\* tx.Commit(): keeps what was written through tx.
TxCommit(db, tx) == db

\* Name tests that let no file through.
SkippedByNameAlways(f, item) == TRUE

\* The two name tests of the loop body of NewEntry.
SkippedByName(f, item) ==
    \/ f.name = ThumbName
    \/ /\ HasPrefix(f.name, Str(item))
       /\ SubSeq(f.name, Len(Str(item)) + 1, Len(f.name)) \in GeneratedSuffixes

\* The file carries a hash that NewEntry is to record for the item: it is
\* not the thumbnail, its name is not the item name followed by one of the
\* five generated suffixes, and its hash string is valid hexadecimal that
\* decodes to exactly 20 bytes.
Recordable(f, item) ==
    /\ f.name # ThumbName
    /\ \A suffix \in GeneratedSuffixes : f.name # Str(item) \o suffix
    /\ ~Decoded[f.hash].err
    /\ Len(Decoded[f.hash].bytes) = HashBytes

\* The 20-byte hashes of the recordable files of a list.
RecordableHashes(files, item) ==
    {Decoded[files[i].hash].bytes : i \in {k \in DOMAIN files : Recordable(files[k], item)}}

\* What NewEntry makes of a file list: whether it is empty, the decoded
\* hashes of the files that reach s.insHash.Exec, in their order, and the
\* hashes that are to be recorded.
FileListKey(files, item) ==
    LET reach == SelectSeq(files, LAMBDA f : /\ ~SkippedByName(f, item)
                                             /\ Len(f.hash) = HashHexLen
                                             /\ ~Decoded[f.hash].err)
    IN [empty |-> files = <<>>,
        hashes |-> [i \in DOMAIN reach |-> Decoded[reach[i].hash].bytes],
        recordable |-> RecordableHashes(files, item)]

\* The answers of the metadata service for an item: one file list of
\* FileLists(item) for each FileListKey (lists of the same key are the same
\* to NewEntry).
Responses ==
    [item \in Items |->
        {CHOOSE files \in FileLists(item) : FileListKey(files, item) = k :
            k \in {FileListKey(files, item) : files \in FileLists(item)}}]

\* The loop with break in the place of every continue.
RECURSIVE InsertFilesBreak(_, _, _, _)
InsertFilesBreak(files, item, id, acc) ==
    IF files = <<>> THEN acc
    ELSE LET f == Head(files)
             dec == Decoded[f.hash]
             ins == InsHashExec(acc.hashes, dec.bytes, id)
         IN IF SkippedByName(f, item) \/ Len(f.hash) # HashHexLen \/ dec.err \/ ins.err
            THEN acc
            ELSE InsertFilesBreak(Tail(files), item, id,
                                  [hashes |-> ins.rows, inserted |-> TRUE])

\* for _, f := range im.Files { ... }: acc is the hashes table and inserted.
RECURSIVE InsertFiles(_, _, _, _)
InsertFiles(files, item, id, acc) ==
    IF files = <<>> THEN acc
    ELSE LET f == Head(files)
             dec == Decoded[f.hash]
             ins == InsHashExec(acc.hashes, dec.bytes, id)
             next == IF SkippedByName(f, item) THEN acc
                     ELSE IF Len(f.hash) # HashHexLen THEN acc
                     ELSE IF dec.err THEN acc
                     ELSE IF ins.err THEN acc
                     ELSE [hashes |-> ins.rows, inserted |-> TRUE]
         IN InsertFiles(Tail(files), item, id, next)

\* Storage.NewEntry: the store after the call and the error returned.
NewEntry(db, files, item) ==
    IF Len(files) = 0 THEN [db |-> db, err |-> "no files"]
    ELSE LET tx == TxBegin
             n == InsNameExec(db.items, item)
         IN IF n.err THEN [db |-> TxRollback(db, tx), err |-> "insert name"]
            ELSE LET r == InsertFiles(files, item, n.id,
                                      [hashes |-> db.hashes, inserted |-> FALSE])
                     after == [items |-> n.rows, hashes |-> r.hashes]
                 IN IF ~r.inserted
                    THEN [db |-> TxRollback(after, tx), err |-> "no valid files"]
                    ELSE [db |-> TxCommit(after, tx), err |-> ""]

(***************************************************************************)
(* main(): start of the process.                                           *)
(***************************************************************************)
\* First start on fresh databases: NewStorage and NewTasks have created the
\* empty tables, length is COUNT(*) = 0, os.Args holds any seeds.
Init ==
    /\ jobs = {}
    /\ done = {}
    /\ length = CountJobs({})
    /\ archive_items = {}
    /\ hashes = {}
    /\ args \in ArgSeqs
    /\ pc = "seed"
    /\ job = NoJob
    /\ buf = <<>>
    /\ reason = ""
    /\ intr = FALSE
    /\ restarts = 0
    /\ everActive = {}
    /\ removed = {}
    /\ iter = NoIter
    /\ entry = NoEntry
    /\ progress = NoProgress

\* The seeding loop of main().
Seed ==
    /\ pc = "seed"
    /\ length + Len(args) <= MaxLength
    /\ LET r == SeedAll(jobs, done, length, args) IN
         /\ jobs' = r.jobs
         /\ length' = r.length
         /\ everActive' = everActive \cup {row.name : row \in r.jobs}
    /\ args' = <<>>
    /\ pc' = "loop"
    /\ progress' = IF restarts = 0 THEN progress ELSE NoProgress
    /\ UNCHANGED <<done, archive_items, hashes, job, buf, reason, intr, restarts,
                   removed, iter, entry>>

(***************************************************************************)
(* main(): the head of the loop, up to the listing requests.               *)
(***************************************************************************)
\* for tasks.Len() > 0 is false: main returns.
ExitEmpty ==
    /\ pc = "loop"
    /\ ~(length > 0)
    /\ pc' = "exited"
    /\ UNCHANGED <<jobs, done, length, archive_items, hashes, args, job, buf, reason,
                   intr, restarts, everActive, removed, iter, entry, progress>>

\* The select placed inside the range loop as well.
ExitInterruptedMidPage ==
    /\ pc \in {"loop", "items"}
    /\ length > 0
    /\ intr
    /\ pc' = "exited"
    /\ UNCHANGED <<jobs, done, length, archive_items, hashes, args, job, buf, reason,
                   intr, restarts, everActive, removed, iter, entry, progress>>

\* case <-intr: return
ExitInterrupted ==
    /\ pc = "loop"
    /\ length > 0
    /\ intr
    /\ pc' = "exited"
    /\ UNCHANGED <<jobs, done, length, archive_items, hashes, args, job, buf, reason,
                   intr, restarts, everActive, removed, iter, entry, progress>>

\* tasks.Next() on an empty jobs table: Scan fails and log.Fatal ends the process.
NextFatal ==
    /\ pc = "loop"
    /\ length > 0
    /\ ~intr
    /\ NextQuery(jobs) = {}
    /\ pc' = "fatal"
    /\ UNCHANGED <<jobs, done, length, archive_items, hashes, args, job, buf, reason,
                   intr, restarts, everActive, removed, iter, entry, progress>>

Max(m, n) == IF m >= n THEN m ELSE n

\* An entry of the page j.page has been ranged over and rest is what is left
\* of the page (the history is that of the first run of the process).
Ranged(prog, j, rest) ==
    IF restarts = 0 /\ rest = <<>>
    THEN [prog EXCEPT ![j.collection] = Max(@, j.page)]
    ELSE prog

StartIter(j, retry, empty) ==
    [coll |-> j.name, p |-> j.page, retry |-> retry, empty |-> empty, incs |-> 0,
     items |-> 0, appended |-> 0, lenBefore |-> length, over |-> FALSE,
     intrMid |-> FALSE, failed |-> 0]

\* The first NewCollectionSubset answers.
FetchOk ==
    /\ pc = "loop"
    /\ length > 0
    /\ ~intr
    /\ \E j \in NextQuery(jobs) :
         /\ SubsetArgsOk(batchSize, j.page)
         /\ \E entries \in Listings(j.page) :
              /\ job' = [collection |-> j.name, page |-> j.page]
              /\ buf' = entries
              /\ reason' = ""
              /\ pc' = IF Len(entries) = 0 THEN "remove" ELSE "items"
              /\ iter' = StartIter(j, "none", Len(entries) = 0)
    /\ UNCHANGED <<jobs, done, length, archive_items, hashes, args, intr, restarts,
                   everActive, removed, entry, progress>>

\* The first NewCollectionSubset fails, the one at job.page + 1 answers.
FetchRetryOk ==
    /\ pc = "loop"
    /\ length > 0
    /\ ~intr
    /\ \E j \in NextQuery(jobs) :
         /\ SubsetArgsOk(batchSize, j.page + 1)
         /\ \E entries \in Listings(j.page + 1) :
              /\ job' = [collection |-> j.name, page |-> j.page + 1]
              /\ buf' = entries
              /\ reason' = ""
              /\ pc' = "retry_inc"
              /\ iter' = StartIter(j, "ok", Len(entries) = 0)
    /\ UNCHANGED <<jobs, done, length, archive_items, hashes, args, intr, restarts,
                   everActive, removed, entry, progress>>

\* Both NewCollectionSubset calls fail: tasks.Remove(job, fmt.Sprint(err)) is next.
FetchRetryFail ==
    /\ pc = "loop"
    /\ length > 0
    /\ ~intr
    /\ \E j \in NextQuery(jobs) :
         /\ job' = [collection |-> j.name, page |-> j.page + 1]
         /\ iter' = StartIter(j, "fail", FALSE)
    /\ buf' = <<>>
    /\ reason' = ErrText
    /\ pc' = "remove"
    /\ UNCHANGED <<jobs, done, length, archive_items, hashes, args, intr, restarts,
                   everActive, removed, entry, progress>>

\* tasks.Increment(job.collection) after the retry answered, then the test
\* len(co.Resp.Buf) == 0.
RetryIncrement ==
    /\ pc = "retry_inc"
    /\ jobs' = IncrementExec(jobs, job.collection)
    /\ iter' = [iter EXCEPT !.incs = @ + 1]
    /\ pc' = IF Len(buf) = 0 THEN "remove" ELSE "items"
    /\ UNCHANGED <<done, length, archive_items, hashes, args, job, buf, reason, intr,
                   restarts, everActive, removed, entry, progress>>

(***************************************************************************)
(* Tasks.Remove: its two statements are two durable steps.                 *)
(***************************************************************************)
\* t.remove.Exec(job.collection)
RemoveDelete ==
    /\ pc = "remove"
    /\ jobs' = RemoveExec(jobs, job.collection)
    /\ pc' = "remember"
    /\ UNCHANGED <<done, length, archive_items, hashes, args, job, buf, reason, intr,
                   restarts, everActive, removed, iter, entry, progress>>

\* t.remember.Exec(job.collection, job.page, reason) (a failure is only
\* logged), t.length--, and continue.
RemoveRemember ==
    /\ pc = "remember"
    /\ LET r == RememberExec(done, job.collection, job.page, reason) IN
         /\ done' = r.rows
         /\ iter' = [iter EXCEPT !.appended = IF r.err THEN @ ELSE @ + 1,
                                 !.over = TRUE]
    /\ length' = length - 1
    /\ removed' = removed \cup {job.collection}
    /\ pc' = "loop"
    /\ UNCHANGED <<jobs, archive_items, hashes, args, job, buf, reason, intr, restarts,
                   everActive, entry, progress>>

(***************************************************************************)
(* main(): for _, itm := range co.Resp.Buf, one entry per step.            *)
(***************************************************************************)
\* The failure handled with break: the rest of the page is dropped.
ItemFetchFailBreak ==
    /\ pc = "items"
    /\ buf # <<>>
    /\ buf' = <<>>
    /\ iter' = [iter EXCEPT !.items = @ + 1, !.failed = @ + 1]
    /\ entry' = NoEntry
    /\ progress' = Ranged(progress, job, <<>>)
    /\ UNCHANGED <<jobs, done, length, archive_items, hashes, pc, args, job, reason,
                   intr, restarts, everActive, removed>>

\* NewItemMetadata fails (either request): log and continue.
ItemFetchFail ==
    /\ pc = "items"
    /\ buf # <<>>
    /\ buf' = Tail(buf)
    /\ iter' = [iter EXCEPT !.items = @ + 1, !.failed = @ + 1]
    /\ entry' = NoEntry
    /\ progress' = Ranged(progress, job, Tail(buf))
    /\ UNCHANGED <<jobs, done, length, archive_items, hashes, pc, args, job, reason,
                   intr, restarts, everActive, removed>>

\* im.IsCollection: tasks.Add(itm.Name)
ItemIsCollection ==
    /\ pc = "items"
    /\ buf # <<>>
    /\ Mediatype(Head(buf)) = "collection"
    /\ length < MaxLength
    /\ LET r == Add(jobs, done, length, Head(buf)) IN
         /\ jobs' = r.jobs
         /\ length' = r.length
         /\ everActive' = everActive \cup {row.name : row \in r.jobs}
    /\ buf' = Tail(buf)
    /\ iter' = [iter EXCEPT !.items = @ + 1]
    /\ entry' = NoEntry
    /\ progress' = Ranged(progress, job, Tail(buf))
    /\ UNCHANGED <<done, archive_items, hashes, pc, args, job, reason, intr, restarts,
                   removed>>

\* storage.NewEntry(im, itm.Name) for the file list im.Files = files; its
\* error is only logged.
ItemRecordFiles(files) ==
    /\ pc = "items"
    /\ buf # <<>>
    /\ Mediatype(Head(buf)) # "collection"
    /\ LET r == NewEntry([items |-> archive_items, hashes |-> hashes], files,
                         Head(buf)) IN
         /\ archive_items' = r.db.items
         /\ hashes' = r.db.hashes
         /\ entry' = [item |-> Head(buf), err |-> r.err,
                      recordable |-> RecordableHashes(files, Head(buf))]
    /\ buf' = Tail(buf)
    /\ iter' = [iter EXCEPT !.items = @ + 1]
    /\ progress' = Ranged(progress, job, Tail(buf))
    /\ UNCHANGED <<jobs, done, length, pc, args, job, reason, intr, restarts, everActive, removed>>

\* The entry is no collection and NewItemMetadata returned its files.
ItemRecord ==
    /\ pc = "items"
    /\ buf # <<>>
    /\ Head(buf) \in Items
    /\ \E files \in Responses[Head(buf)] : ItemRecordFiles(files)

\* tasks.Increment(job.collection) after the range loop.
PostIncrement ==
    /\ pc = "items"
    /\ buf = <<>>
    /\ jobs' = IncrementExec(jobs, job.collection)
    /\ iter' = [iter EXCEPT !.incs = @ + 1, !.over = TRUE]
    /\ pc' = "loop"
    /\ entry' = NoEntry
    /\ UNCHANGED <<done, length, archive_items, hashes, args, job, buf, reason, intr,
                   restarts, everActive, removed, progress>>

(***************************************************************************)
(* The environment: the interrupt signal, and the process being started    *)
(* again (after it exited, died in log.Fatal, or was killed at any point). *)
(***************************************************************************)
Interrupt ==
    /\ pc \notin {"exited", "fatal"}
    /\ ~intr
    /\ intr' = TRUE
    /\ iter' = [iter EXCEPT !.intrMid = pc \in {"retry_inc", "items", "remove", "remember"}]
    /\ UNCHANGED <<jobs, done, length, archive_items, hashes, pc, args, job, buf,
                   reason, restarts, everActive, removed, entry, progress>>

\* The databases keep their rows; NewTasks reads length from COUNT(*).
Restart ==
    /\ restarts < MaxRestarts
    /\ restarts' = restarts + 1
    /\ length' = CountJobs(jobs)
    /\ args' \in ArgSeqs
    /\ pc' = "seed"
    /\ job' = NoJob
    /\ buf' = <<>>
    /\ reason' = ""
    /\ intr' = FALSE
    /\ iter' = NoIter
    /\ entry' = NoEntry
    /\ UNCHANGED <<jobs, done, archive_items, hashes, everActive, removed, progress>>

\* One run of the process, from its start to its exit.
NextRun ==
    \/ Seed
    \/ ExitEmpty
    \/ ExitInterrupted
    \/ NextFatal
    \/ FetchOk
    \/ FetchRetryOk
    \/ FetchRetryFail
    \/ RetryIncrement
    \/ RemoveDelete
    \/ RemoveRemember
    \/ ItemFetchFail
    \/ ItemIsCollection
    \/ ItemRecord
    \/ PostIncrement
    \/ Interrupt

Next ==
    \/ NextRun
    \/ Restart

\* The lifetime of the databases: runs of the process, each started on what
\* the one before left in working.db and hashes.db.
Spec == Init /\ [][Next]_vars

\* The first run of the process, on fresh databases.
RunSpec == Init /\ [][NextRun]_vars

\* A run in which every request to the archive answers and no interrupt is
\* delivered.
NextAnswering ==
    \/ Seed
    \/ ExitEmpty
    \/ NextFatal
    \/ FetchOk
    \/ RemoveDelete
    \/ RemoveRemember
    \/ ItemIsCollection
    \/ ItemRecord
    \/ PostIncrement

\* Such a run, in which the process keeps running while it has a step to take.
AnsweringSpec == Init /\ [][NextAnswering]_vars /\ WF_vars(NextAnswering)

(***************************************************************************)
(* Storage alone: NewEntry called for any item name with any file list, on *)
(* the store that the calls before it left.                                *)
(***************************************************************************)
RecorderItems == {"x", "y"}

\* The files of a call: those of FilesOf("x") (for item "y" none of them is
\* named after the item) and one more file with a valid hash.
RecorderFiles == FilesOf("x") \cup {[name |-> <<"data2.bin">>, hash |-> HexOf("d")]}

RecorderInit ==
    /\ jobs = {}
    /\ done = {}
    /\ length = CountJobs({})
    /\ archive_items = {}
    /\ hashes = {}
    /\ args = <<>>
    /\ pc = "record"
    /\ job = NoJob
    /\ buf = <<>>
    /\ reason = ""
    /\ intr = FALSE
    /\ restarts = 0
    /\ everActive = {}
    /\ removed = {}
    /\ iter = NoIter
    /\ entry = NoEntry
    /\ progress = NoProgress

\* storage.NewEntry(im, item) with im.Files = files.
RecordCall(item, files) ==
    /\ pc = "record"
    /\ LET r == NewEntry([items |-> archive_items, hashes |-> hashes], files, item) IN
         /\ archive_items' = r.db.items
         /\ hashes' = r.db.hashes
         /\ entry' = [item |-> item, err |-> r.err,
                      recordable |-> RecordableHashes(files, item)]
    /\ UNCHANGED <<jobs, done, length, pc, args, job, buf, reason, intr, restarts,
                   everActive, removed, iter, progress>>

RecorderNext ==
    \E item \in RecorderItems :
        \E files \in SeqsUpTo(RecorderFiles, MaxRecorderFiles) : RecordCall(item, files)

RecorderSpec == RecorderInit /\ [][RecorderNext]_vars

(***************************************************************************)
(* Tasks alone: Add, Increment and Remove called in any order on working.db *)
(* and the process started again at any point between two calls.           *)
(***************************************************************************)
LedgerInit ==
    /\ jobs = {}
    /\ done = {}
    /\ length = CountJobs({})
    /\ archive_items = {}
    /\ hashes = {}
    /\ args = <<>>
    /\ pc = "ledger"
    /\ job = NoJob
    /\ buf = <<>>
    /\ reason = ""
    /\ intr = FALSE
    /\ restarts = 0
    /\ everActive = {}
    /\ removed = {}
    /\ iter = NoIter
    /\ entry = NoEntry
    /\ progress = NoProgress

\* tasks.Add(name)
LedgerAdd(name) ==
    /\ pc = "ledger"
    /\ length < MaxLength
    /\ LET r == Add(jobs, done, length, name) IN
         /\ jobs' = r.jobs
         /\ length' = r.length
         /\ everActive' = everActive \cup {row.name : row \in r.jobs}
    /\ UNCHANGED <<done, archive_items, hashes, pc, args, job, buf, reason, intr,
                   restarts, removed, iter, entry, progress>>

\* tasks.Increment(name) for an active Job.
LedgerIncrement(name) ==
    /\ pc = "ledger"
    /\ \E r \in jobs : r.name = name /\ r.page <= MaxPage
    /\ jobs' = IncrementExec(jobs, name)
    /\ UNCHANGED <<done, length, archive_items, hashes, pc, args, job, buf, reason,
                   intr, restarts, everActive, removed, iter, entry, progress>>

\* tasks.Remove(j, why) for a Job j read from the jobs table.
LedgerRemove(name, why) ==
    /\ pc = "ledger"
    /\ \E r \in jobs :
         /\ r.name = name
         /\ jobs' = RemoveExec(jobs, name)
         /\ done' = RememberExec(done, name, r.page, why).rows
    /\ length' = length - 1
    /\ removed' = removed \cup {name}
    /\ UNCHANGED <<archive_items, hashes, pc, args, job, buf, reason, intr, restarts,
                   everActive, iter, entry, progress>>

\* The process is started again: NewTasks reads length from COUNT(*).
LedgerRestart ==
    /\ pc = "ledger"
    /\ restarts < MaxRestarts
    /\ restarts' = restarts + 1
    /\ length' = CountJobs(jobs)
    /\ UNCHANGED <<jobs, done, archive_items, hashes, pc, args, job, buf, reason, intr,
                   everActive, removed, iter, entry, progress>>

LedgerNext ==
    \/ \E name \in Collections : LedgerAdd(name)
    \/ \E name \in Collections : LedgerIncrement(name)
    \/ \E name \in Collections : \E why \in {"", ErrText} : LedgerRemove(name, why)
    \/ LedgerRestart

LedgerSpec == LedgerInit /\ [][LedgerNext]_vars

(***************************************************************************)
(* Properties.                                                             *)
(***************************************************************************)
StoredPage(name) == (CHOOSE r \in jobs : r.name = name).page

DoneRecords(name) == {r \in done : r.name = name}

\* A call of Tasks.Add(n): while seeding n alone, or for an entry n of a page.
AddStep(n) ==
    \/ ItemIsCollection /\ Head(buf) = n
    \/ Seed /\ args = <<n>>
    \/ LedgerAdd(n)

\* The step in which tasks.Next() returned a job.
NextReturned == pc = "loop" /\ pc' \in {"items", "remove", "retry_inc"}

\* The loop iteration over iter.coll has just ended.
IterationOver == pc = "loop" /\ iter.over

\* C1: for every collection name n with a DoneRecord, Tasks.Add(n) is a
\* no-op: the jobs table, the done log and Len() are unchanged by the call.
C1_AddOfDoneNameIsNoOp ==
    [][\A n \in Collections :
         (AddStep(n) /\ HasDoneRecord(done, n))
             => (jobs' = jobs /\ done' = done /\ length' = length)]_vars

\* C2: in every reachable state no collection name is both in the jobs table
\* and in the done log.
C2_JobAndDoneDisjoint ==
    \A n \in Collections : ~(HasJob(jobs, n) /\ HasDoneRecord(done, n))

\* C3: after any sequence of Add, Increment and Remove and after any restart
\* that re-seeds names, Len() equals the number of rows of the jobs table
\* (a Remove that has run only its DELETE is not yet over).
C3_LenIsJobCount == pc # "remember" => length = Cardinality(jobs)

\* C4: the crawl loop calls Next() only when a job exists, so the fatal
\* outcome of Next() on an empty jobs table is unreachable.
C4_NextNeverFatal == pc # "fatal"

\* C5: after Remove has been called for a name, no Job for that name exists
\* again and Remove is not called for it again.
C5_ResolvedAtMostOnce ==
    \A n \in removed :
        /\ ~HasJob(jobs, n)
        /\ ~(pc = "remove" /\ job.collection = n)

\* C6: Next() returns an active Job whose page is the minimum over all
\* active Jobs: no Job with a strictly smaller page exists when it returns.
C6_NextReturnsMinimumPage ==
    [][NextReturned =>
          /\ \E r \in jobs : r.name = iter'.coll /\ r.page = iter'.p
          /\ \A q \in jobs : iter'.p <= q.page]_vars

\* Next() has just returned the job of smaller page while a job of larger
\* page was active.
C6_Witness ==
    /\ pc = "items"
    /\ iter.items = 0
    /\ iter.retry = "none"
    /\ \E q \in jobs : q.page > iter.p
    /\ \E r \in jobs : r.name = iter.coll /\ r.page = iter.p

\* C7: after NewEntry returns, every item row has at least one hash row
\* referencing it; after NewEntry failed with "no valid files" the item has
\* no item row (and so no hash row).
C7_ItemsHaveHashes ==
    /\ \A it \in archive_items : \E h \in hashes : h.item = it.id
    /\ entry.err = "no valid files" =>
           ~\E it \in archive_items : it.name = entry.item

\* C8: no DoneRecord is lost or duplicated, also across a crash and restart:
\* every name that was once an active Job and no longer is one has exactly
\* one DoneRecord, and no name has two (a Remove that has run only its DELETE
\* is not yet over).
C8_DoneRecordNeverLost ==
    /\ pc # "remember" =>
           \A n \in everActive : ~HasJob(jobs, n) => Cardinality(DoneRecords(n)) = 1
    /\ \A n \in Collections : Cardinality(DoneRecords(n)) <= 1

\* C9 as stated: when the first fetch for a Job stored at page p fails and
\* the retry at p + 1 succeeds, then at the end of the iteration the stored
\* page is p + 2, the Job is active and no DoneRecord was written for it.
C9_RetryAdvancesByTwo_Original ==
    (IterationOver /\ iter.retry = "ok") =>
        /\ HasJob(jobs, iter.coll)
        /\ StoredPage(iter.coll) = iter.p + 2
        /\ iter.appended = 0

\* C9, amended: when the first fetch for a Job stored at page p fails and
\* the retry at p + 1 succeeds with a page that has at least one entry, then
\* at the end of the iteration the stored page is p + 2, the Job is active
\* and no DoneRecord was written in the iteration.
C9_RetryAdvancesByTwo ==
    (IterationOver /\ iter.retry = "ok" /\ ~iter.empty) =>
        /\ HasJob(jobs, iter.coll)
        /\ StoredPage(iter.coll) = iter.p + 2
        /\ iter.appended = 0
        /\ iter.incs = 2

\* An iteration whose retry returned entries has ended.
C9_Witness ==
    /\ IterationOver
    /\ iter.retry = "ok"
    /\ ~iter.empty
    /\ iter.items >= 1
    /\ HasJob(jobs, iter.coll)

\* C10: when a page fetch for a Job returns no entry, in that iteration the
\* Job is deleted, exactly one DoneRecord with empty reason is appended for
\* it, Len() decreases by one, and no Increment and no item processing is
\* performed for it.
C10_ExhaustionRetiresJob ==
    (IterationOver /\ iter.empty) =>
        /\ ~HasJob(jobs, iter.coll)
        /\ iter.appended = 1
        /\ \E r \in DoneRecords(iter.coll) : r.reason = ""
        /\ length = iter.lenBefore - 1
        /\ iter.incs = 0
        /\ iter.items = 0

\* The rows of the jobs table for names other than name.
OtherJobs(rows, name) == {r \in rows : r.name # name}

\* C11: when both fetches for a Job fail, in that iteration the Job is
\* deleted and a DoneRecord with a non-empty reason (the error text) is
\* written for it; there is no third fetch, no entry is processed, no
\* Increment is applied, the other active Jobs are untouched and the loop
\* goes on to its next iteration.
C11_DoubleFailureRetiresJob ==
    [][/\ (iter.retry = "fail" /\ pc = "remember" /\ pc' = "loop") =>
           /\ ~HasJob(jobs', iter.coll)
           /\ iter'.appended = 1
           /\ \E r \in done' : r.name = iter.coll /\ r.reason # ""
           /\ iter'.incs = 0
           /\ iter'.items = 0
       /\ (iter.retry = "fail" /\ pc \in {"remove", "remember"}
              /\ pc' \in {"remember", "loop"}) =>
           /\ OtherJobs(jobs', iter.coll) = OtherJobs(jobs, iter.coll)
           /\ archive_items' = archive_items
           /\ hashes' = hashes]_vars

\* C12: a DoneRecord is write-once: once the done log holds a record for a
\* name, no step changes its page or its reason or deletes it, whatever
\* Add, Increment and Remove calls follow (a second Remove for the same name
\* included).
C12_DoneRecordWriteOnce == [][\A r \in done : r \in done']_vars

\* A second Remove for a name has returned: both fetches of the job failed,
\* and the done log keeps the record with the empty reason that the first
\* Remove wrote.
C12_Witness ==
    /\ IterationOver
    /\ iter.retry = "fail"
    /\ iter.appended = 0
    /\ \E r \in DoneRecords(iter.coll) : r.reason = "" /\ r.page # job.page

\* C13: cancellation is observed only at the top of a loop iteration. The
\* loop stops on an interrupt only between iterations: an interrupt that
\* arrives while a page is processed leaves every remaining entry to be
\* processed and the post-batch Increment to be applied before the loop
\* stops, and the step that observes the cancellation changes neither the
\* ledger nor the recorder.
C13_CancellationOnlyAtLoopTop ==
    [][(pc # "exited" /\ pc' = "exited" /\ length > 0) =>
          /\ intr
          /\ pc = "loop"
          /\ buf = <<>>
          /\ iter.intrMid => iter.over
          /\ (iter.intrMid /\ ~iter.empty /\ iter.retry # "fail") =>
                 /\ iter.incs >= 1
                 /\ HasJob(jobs, iter.coll)
                 /\ StoredPage(iter.coll) = iter.p + iter.incs
          /\ UNCHANGED <<jobs, done, length, archive_items, hashes>>]_vars

\* The loop has stopped on an interrupt that arrived while a page was
\* processed, after the entries of the page and the Increment.
C13_Witness ==
    /\ pc = "exited"
    /\ intr
    /\ iter.intrMid
    /\ iter.over
    /\ iter.items >= 1
    /\ iter.incs >= 1
    /\ length > 0

\* C14: on a finite archive whose requests answer and without interrupt,
\* the run ends only by the normal exit of the loop, with no active Job and
\* a DoneRecord for every collection that was accepted; it does not end in
\* the fatal outcome of Next().
C14_CrawlEndsNormally ==
    pc \in {"exited", "fatal"} =>
        /\ pc = "exited"
        /\ jobs = {}
        /\ \A n \in everActive : HasDoneRecord(done, n)

Stored(hashrows, b) == \E h \in hashrows : h.hash = b

HasItemRow(rows, name) == \E it \in rows : it.name = name

\* The item has its item row and a hash row that references it.
Recorded(items, hashrows, name) ==
    \E it \in items : it.name = name /\ \E h \in hashrows : h.item = it.id

\* The step in which storage.NewEntry was called for the entry at the head of
\* the page and returned.
RecordStep ==
    pc = "items" /\ buf # <<>> /\ buf' = Tail(buf) /\ entry'.item = Head(buf)

InsertedHashes == {h.hash : h \in hashes' \ hashes}

\* C16 as stated: for every item name and file list, the hash rows that
\* NewEntry inserts are exactly those of the files that are not the
\* thumbnail, are not named by the item name and one of the five generated
\* suffixes, and carry valid hexadecimal decoding to exactly 20 bytes; a
\* skipped or failing file never keeps a later file from being considered.
C16_RecordFiltering_Original ==
    [][pc = "record" =>
          /\ InsertedHashes = entry'.recordable
          /\ hashes \subseteq hashes']_vars

\* C16, amended: for every item name that has no item row yet and every
\* file list, the hash rows that NewEntry inserts are exactly those of the
\* files that pass the three tests and whose hash is not stored already
\* (for another item or for an earlier file of the list), each referencing
\* the new item row; for an item name that has an item row NewEntry
\* inserts no hash row.
C16_RecordFiltering ==
    [][pc = "record" =>
          /\ hashes \subseteq hashes'
          /\ ~HasItemRow(archive_items, entry'.item) =>
                 /\ InsertedHashes = {b \in entry'.recordable : ~Stored(hashes, b)}
                 /\ \A h \in hashes' \ hashes : h.item = NextId(archive_items)
          /\ HasItemRow(archive_items, entry'.item) => InsertedHashes = {}]_vars

\* NewEntry has returned for a list with two hashes to record, one of which
\* was stored already: the item has exactly one hash row.
C16_Witness ==
    /\ pc = "record"
    /\ entry.err = ""
    /\ Cardinality(entry.recordable) = 2
    /\ \E it \in archive_items :
          /\ it.name = entry.item
          /\ Cardinality({h \in hashes : h.item = it.id}) = 1
          /\ \E h \in hashes : h.hash \in entry.recordable /\ h.item # it.id

\* The step is a tasks.Increment call for the name.
IncrementStep(name) ==
    \/ (RetryIncrement \/ PostIncrement) /\ job.collection = name
    \/ LedgerIncrement(name)

\* C17: the stored page of an active Job never decreases and is changed
\* only by an Increment of the Job's own name, which adds one; an Add of a
\* name that has an active Job leaves the jobs table unchanged, and a
\* restart of the process leaves every stored page unchanged.
C17_PageOnlyIncrements ==
    [][/\ \A r \in jobs :
            HasJob(jobs', r.name) =>
                \/ r \in jobs'
                \/ /\ [r EXCEPT !.page = @ + 1] \in jobs'
                   /\ IncrementStep(r.name)
       /\ \A n \in Collections : (AddStep(n) /\ HasJob(jobs, n)) => jobs' = jobs
       /\ restarts' # restarts => jobs' = jobs]_vars

\* The process was started again while its only Job stood at a page beyond
\* the first, and Add has been called for that Job again (Len() counts the
\* call): its page is as it was.
C17_Witness ==
    /\ restarts >= 1
    /\ pc \in {"loop", "ledger"}
    /\ iter = NoIter
    /\ args = <<>>
    /\ length > 1
    /\ \E r \in jobs : r.page >= 2 /\ jobs = {r}

\* The step in which NewItemMetadata failed for the entry at the head of the
\* page.
FetchFailStep == pc = "items" /\ buf # <<>> /\ iter'.failed = iter.failed + 1

\* C19: a metadata fetch failure for one entry of a page creates no Job, no
\* DoneRecord, no item row and no hash row and goes on to the next entry; a
\* failing NewEntry for a leaf creates no Job and no DoneRecord and goes on
\* to the next entry; and the range loop is left only after the last entry,
\* by the post-batch Increment of the scanned Job.
C19_EntryFailureIsLocal ==
    [][/\ FetchFailStep =>
            /\ UNCHANGED <<jobs, done, length, archive_items, hashes>>
            /\ buf' = Tail(buf)
            /\ pc' = "items"
       /\ (RecordStep /\ entry'.err # "") =>
            /\ UNCHANGED <<jobs, done, length>>
            /\ buf' = Tail(buf)
            /\ pc' = "items"
       /\ (pc = "items" /\ pc' # "items") =>
            /\ buf = <<>>
            /\ pc' = "loop"
            /\ jobs' = IncrementExec(jobs, iter.coll)
            /\ \E r \in jobs' : r.name = iter.coll /\ r.page = iter.p + iter'.incs]_vars

\* The metadata fetch of the first entry of a page failed and the second
\* entry, a leaf, has been recorded.
C19_Witness ==
    /\ pc = "items"
    /\ iter.failed = 1
    /\ iter.items = 2
    /\ entry.err = ""
    /\ entry.item \in Items
    /\ Recorded(archive_items, hashes, entry.item)
    /\ length = iter.lenBefore

\* C20: the hashes table never holds the same 20-byte hash twice. A hash
\* that is stored already is not inserted again, so NewEntry for a new item
\* whose valid hashes are all stored inserts no hash row and fails with "no
\* valid files"; NewEntry for an item name that has an item row fails and
\* leaves the rows of both tables as they were.
C20_HashStoredOnce ==
    [][pc = "record" =>
          /\ \A h1, h2 \in hashes' : h1.hash = h2.hash => h1 = h2
          /\ hashes \subseteq hashes'
          /\ (/\ ~HasItemRow(archive_items, entry'.item)
              /\ entry'.recordable # {}
              /\ \A b \in entry'.recordable : Stored(hashes, b)) =>
                 /\ entry'.err = "no valid files"
                 /\ hashes' = hashes
          /\ HasItemRow(archive_items, entry'.item) =>
                 /\ entry'.err # ""
                 /\ archive_items' = archive_items
                 /\ hashes' = hashes]_vars

\* NewEntry has failed with "no valid files" for an item whose only valid
\* hash was stored for another item.
C20_Witness ==
    /\ pc = "record"
    /\ entry.err = "no valid files"
    /\ entry.recordable # {}
    /\ \A b \in entry.recordable :
          \E h \in hashes, it \in archive_items :
              h.hash = b /\ h.item = it.id /\ it.name # entry.item

\* The active Jobs whose stored page is a page whose entries were all ranged
\* over already.
Lagging == {r \in jobs : r.page <= progress[r.name]}

\* The process has just been started again after the first run was stopped
\* at some point.
JustRestarted == restarts = 1 /\ pc = "seed"

\* A step leaves no stored page ahead of the listings received: a new row
\* starts at page 1, and a stored page only moves by one, in the iteration
\* of its Job, up to the page after the one whose listing was received (the
\* page before that one being the page the retry skipped).
StoredPageStep ==
    \A r \in jobs' :
        \/ r \in jobs
        \/ r.page = 1 /\ \A o \in jobs : o.name # r.name
        \/ /\ pc \in {"retry_inc", "items"}
           /\ job.collection = r.name
           /\ r.page <= job.page + 1
           /\ \E o \in jobs : o.name = r.name /\ r.page = o.page + 1

\* C18: when the process is started again after a crash at any point of a
\* loop iteration, at most one Job has a stored page that lags the pages
\* whose entries were already fully processed, and it lags by at most one;
\* and no stored page is ever ahead of a page that was not yet fetched
\* successfully or skipped by the compensating retry.
C18_PageLagsByAtMostOne ==
    /\ [](JustRestarted =>
            /\ Cardinality(Lagging) <= 1
            /\ \A r \in jobs : r.page >= progress[r.name])
    /\ [][StoredPageStep]_vars

====
